---- MODULE Spec2Model ----
(***************************************************************************)
(* yarpOpenPose (src/yarpOpenPose/main.cpp): a YARP RFModule that reads    *)
(* images from /<name>/image:i, pushes them through an asynchronous        *)
(* OpenPose wrapper, and republishes the keypoints on /<name>/target:o and *)
(* the rendered frame on /<name>/image:o.                                  *)
(*                                                                         *)
(* Two threads are modelled: the RFModule loop thread (configure, then     *)
(* updateModule over and over, then close) and the control thread that     *)
(* serves a quit command with Module::quit.  updateModule is cut at its    *)
(* blocking calls (inPort.read, waitAndEmplace, waitAndPop) so that quit   *)
(* and the engine can interleave with a cycle in progress.  The OpenPose   *)
(* pipeline and the inbound image stream are the environment.              *)
(*                                                                         *)
(* Modelling notes.  The route from a quit command on the rpc port to      *)
(* Module::quit lies in the RFModule/rpc layer and is taken as given.      *)
(* poseKeyPoints is either empty or a {people, parts, 3} array, as the     *)
(* engine produces it, so the op::error of line 184 is never raised.       *)
(* workConsumer with an empty cvOutputData follows lines 242-248 as        *)
(* written: a 0x0 image is prepared and written.                           *)
(***************************************************************************)
EXTENDS Integers, Sequences, FiniteSets, TLC

\* ------------------------------------------------------------------ bounds
MaxFrames == 3          \* frames the image source delivers in a run
MaxPeople == 2          \* persons the engine reports in one datum
MaxQuits  == 2          \* quit commands the control port receives in a run
MaxStrLen == 4          \* length of the resolution strings tried

\* Numbers of body parts per person the engine may report (pose.getSize(1)):
\* 15 and 18 are the MPI and COCO keypoint counts, 19 is the size of
\* mapParts, 20 is one past it.
PartCounts == {15, 18, 19, 20}

\* --------------------------------------------------------------- constants
Ports == {"rpc", "image:i", "image:o", "target:o"}
DataPorts == {"image:i", "image:o", "target:o"}

EmptyFrameMsg  == "Empty frame detected. Closing program."
NullDatumsMsg  == "Nullptr or empty datumsPtr found."
NotEmplacedMsg == "Processed datum could not be emplaced."

\* ImageProcessing::mapParts as constructed (index -> name)
BodyPartTable ==
    [i \in 0..18 |->
        CASE i = 0  -> "Nose"      [] i = 1  -> "Neck"
          [] i = 2  -> "RShoulder" [] i = 3  -> "RElbow"
          [] i = 4  -> "RWrist"    [] i = 5  -> "LShoulder"
          [] i = 6  -> "LElbow"    [] i = 7  -> "LWrist"
          [] i = 8  -> "RHip"      [] i = 9  -> "RKnee"
          [] i = 10 -> "RAnkle"    [] i = 11 -> "LHip"
          [] i = 12 -> "LKnee"     [] i = 13 -> "LAnkle"
          [] i = 14 -> "REye"      [] i = 15 -> "LEye"
          [] i = 16 -> "REar"      [] i = 17 -> "LEar"
          [] OTHER  -> "Background"]

\* ------------------------------------------------------------------- state
VARIABLES
    phase,                \* "Configuring" | "Running" | "Closed" (RFModule run),
                          \* "Aborted": configure left by an exception
    rf,                   \* the configuration keys the ResourceFinder holds
    FLAGS_disable_blending, \* the gflags command line flag of that name
    unopenable,           \* ports whose open() fails (returns false)
    engineOK,             \* opWrapper.configure / start succeed (do not throw)
    wrapperStructPose,    \* <<>> or << the struct handed to opWrapper >>
    no_render_output,     \* Module::no_render_output (configuration key)
    closing,              \* Module::closing
    mClosed,              \* ImageInput::mClosed
    inPort,               \* frame pending on image:i: <<>> or <<frame>>
    delivered,            \* frames the source has sent so far
    pc,                   \* loop thread: position inside updateModule
    datumToProcess,       \* updateModule local: frame id, 0 = nullptr
    successfullyEmplaced, \* updateModule local
    popped,               \* updateModule local: result of waitAndPop
    datumProcessed,       \* updateModule local: the batch popped
    opState,              \* opWrapper: "idle" | "running" | "stopped"
    opIn,                 \* opWrapper input queue (frame ids)
    opOut,                \* opWrapper output queue (batches)
    stopCount,            \* calls of opWrapper.stop()
    ctl,                  \* control thread: "idle" | "stop" (inside quit)
    quits,                \* quit commands received
    portOpens,            \* port -> number of open() calls
    portCloses,           \* port -> number of close() calls
    mapParts,             \* ImageProcessing::mapParts
    targetWrites,         \* writes on target:o
    lastTarget,           \* last message written on target:o
    imageWrites,          \* writes on image:o
    lastImage,            \* last image written on image:o
    log,                  \* diagnostics emitted (op::log / yError), in order
    inReads,              \* completed inPort.read() calls
    lastAcquire,          \* branch taken by the last workProducer call
    framesAcquired,       \* non-empty frames returned by workProducer
    okBatches,            \* batches popped that hold one person of 19 parts
    cyc                   \* bookkeeping of the cycle in progress

vars == << phase, rf, FLAGS_disable_blending, unopenable, engineOK,
           wrapperStructPose, no_render_output, closing, mClosed, inPort, delivered, pc,
           datumToProcess, successfullyEmplaced, popped, datumProcessed,
           opState, opIn, opOut, stopCount, ctl, quits, portOpens, portCloses,
           mapParts, targetWrites, lastTarget, imageWrites, lastImage, log,
           inReads, lastAcquire, framesAcquired, okBatches, cyc >>

\* groups used in UNCHANGED
envVars    == << rf, FLAGS_disable_blending, unopenable, engineOK >>
cfgVars    == << phase, no_render_output, envVars, wrapperStructPose >>
srcVars    == << inPort, delivered >>
inputVars  == << mClosed, inReads, lastAcquire, framesAcquired >>
localVars  == << datumToProcess, successfullyEmplaced, popped, datumProcessed >>
engineVars == << opState, opIn, opOut >>
ctlVars    == << closing, stopCount, ctl, quits >>
portVars   == << portOpens, portCloses >>
tgtVars    == << mapParts, targetWrites, lastTarget >>
imgVars    == << imageWrites, lastImage >>
histVars   == << okBatches >>

\* ------------------------------------------------------------------ values
\* A batch is what waitAndPop hands back: the datum vector of one frame.
\* isNull: the shared_ptr is null; datums: the vector (at most one datum,
\* workProducer emplaces exactly one).  A datum carries the number of people
\* and of body parts of its poseKeyPoints and whether cvOutputData is empty.
NullBatch == [frame |-> 0, isNull |-> TRUE, datums |-> <<>>]

Datums ==
    { [people |-> 0, parts |-> 0, outEmpty |-> no_render_output] }
    \cup
    { [people |-> n, parts |-> p, outEmpty |-> no_render_output] :
          n \in 1..MaxPeople, p \in PartCounts }

BatchesOf(f) ==
    { [frame |-> f, isNull |-> TRUE,  datums |-> <<>>],
      [frame |-> f, isNull |-> FALSE, datums |-> <<>>] }
    \cup
    { [frame |-> f, isNull |-> FALSE, datums |-> <<d>>] : d \in Datums }

\* poseKeyPoints of a datum: value c (0 = x, 1 = y, 2 = confidence) of body
\* part `part` of person `person`.
KeyPoint(person, part, c) == 1000 * person + 10 * part + c

\* op::Array<float> holds the {people, parts, 3} array row-major; pose[k].
Pose(d) ==
    [k \in 0..(3 * d.people * d.parts - 1) |->
        KeyPoint(k \div (3 * d.parts), (k \div 3) % d.parts, k % 3)]

\* A batch holding exactly one person with 19 body parts
OnePerson19(b) ==
    /\ ~b.isNull
    /\ Len(b.datums) = 1
    /\ b.datums[1].people = 1
    /\ b.datums[1].parts = 19

BatchCount(b) == IF OnePerson19(b) THEN 1 ELSE 0

NoMsg == [frame |-> 0, bottle |-> <<>>]
NoImg == [frame |-> 0, empty |-> FALSE]

\* Bookkeeping of one updateModule call: the counters at its start, whether a
\* non-empty frame was pending on image:i then, whether closing was set then,
\* and the calls it has made.
NewCycle ==
    [log |-> Len(log), tgt |-> targetWrites, img |-> imageWrites,
     pending |-> (inPort # <<>> /\ ~inPort[1].empty),
     closingAtStart |-> closing,
     emplace |-> 0, pop |-> 0, consume |-> 0, work |-> 0]

\* ----------------------------------------------------------- configuration
\* Strings that are parsed are sequences of one-character strings.
Res656x368 == << "6", "5", "6", "x", "3", "6", "8" >>
Res320x240 == << "3", "2", "0", "x", "2", "4", "0" >>

\* The keys of configure (lines 295-322) with their default values
DefaultRF ==
    [model_name |-> "COCO", model_folder |-> "/models",
     net_resolution |-> Res656x368, img_resolution |-> Res320x240,
     num_gpu |-> 1, num_gpu_start |-> 0, num_scales |-> 1,
     scale_gap |-> "0.3", scale_mode |-> 0,
     heatmaps_add_parts |-> FALSE, heatmaps_add_bkg |-> FALSE,
     heatmaps_add_PAFs |-> FALSE, heatmaps_scale_mode |-> 2,
     part_to_show |-> 0, disable_blending |-> FALSE,
     alpha_pose |-> "0.6", alpha_heatmap |-> "0.7"]

ModelErrMsg ==
    "String does not correspond to any model (COCO, MPI, MPI_4_layers)"
ScaleErrMsg == "String does not correspond to any scale mode"
ImgResErrMsg == "Error, resolution format invalid"
NetResErrMsg == "Error, net resolution format invalid"
HeatErrMsg == "Non valid heatmaps_scale_mode."
EngineErrMsg == "opWrapper error"

\* sscanf: white space, digits and the value of a digit
IsSpace(c) == c = " "

IsDigit(c) == c \in {"0", "1", "2", "3", "4", "5", "6", "7", "8", "9"}

DigitVal(c) ==
    CASE c = "0" -> 0 [] c = "1" -> 1 [] c = "2" -> 2 [] c = "3" -> 3
      [] c = "4" -> 4 [] c = "5" -> 5 [] c = "6" -> 6 [] c = "7" -> 7
      [] c = "8" -> 8 [] OTHER -> 9

\* first position from i on that holds no white space
RECURSIVE skipSpace(_, _)
skipSpace(str, i) ==
    IF i <= Len(str) /\ IsSpace(str[i]) THEN skipSpace(str, i + 1) ELSE i

\* the digits from position i on: << value, position after them >>
RECURSIVE scanDigits(_, _, _)
scanDigits(str, i, acc) ==
    IF i <= Len(str) /\ IsDigit(str[i])
    THEN scanDigits(str, i + 1, 10 * acc + DigitVal(str[i]))
    ELSE << acc, i >>

\* one %d conversion of sscanf at position i: leading white space is skipped,
\* a sign is accepted, then at least one digit is needed.
scanInt(str, i) ==
    LET j == skipSpace(str, i)
        signed == j <= Len(str) /\ str[j] \in {"-", "+"}
        k == IF signed THEN j + 1 ELSE j
        r == scanDigits(str, k, 0)
    IN  IF j > Len(str)
        THEN [status |-> "eof", val |-> 0, next |-> j]
        ELSE IF r[2] = k
        THEN [status |-> "fail", val |-> 0, next |-> k]
        ELSE [status |-> "ok",
              val |-> IF signed /\ str[j] = "-" THEN 0 - r[1] ELSE r[1],
              next |-> r[2]]

\* sscanf(str, "%dx%d", &width, &height), lines 422 and 426: the number of
\* conversions done (EOF = -1 on an input that ends before the first one) and
\* the values stored; whatever follows the second number is not looked at.
sscanf_dxd(str) ==
    LET a == scanInt(str, 1)
    IN  IF a.status = "eof" THEN [nRead |-> -1, width |-> 0, height |-> 0]
        ELSE IF a.status = "fail"
        THEN [nRead |-> 0, width |-> 0, height |-> 0]
        ELSE IF a.next > Len(str) \/ str[a.next] # "x"
        THEN [nRead |-> 1, width |-> a.val, height |-> 0]
        ELSE LET b == scanInt(str, a.next + 1)
             IN  IF b.status = "ok"
                 THEN [nRead |-> 2, width |-> a.val, height |-> b.val]
                 ELSE [nRead |-> 1, width |-> a.val, height |-> 0]

\* gflagToPoseModel taking MPI_4_layers for the plain MPI model
gflagToPoseModel_NoLayers(poseModeString) ==
    IF poseModeString = "COCO"
    THEN [model |-> "COCO_18", diag |-> <<>>]
    ELSE IF poseModeString = "MPI" \/ poseModeString = "MPI_4_layers"
    THEN [model |-> "MPI_15", diag |-> <<>>]
    ELSE [model |-> "COCO_18", diag |-> << ModelErrMsg >>]

\* Module::gflagToPoseModel: the model and the diagnostics it emits
gflagToPoseModel(poseModeString) ==
    IF poseModeString = "COCO"
    THEN [model |-> "COCO_18", diag |-> <<>>]
    ELSE IF poseModeString = "MPI"
    THEN [model |-> "MPI_15", diag |-> <<>>]
    ELSE IF poseModeString = "MPI_4_layers"
    THEN [model |-> "MPI_15_4", diag |-> <<>>]
    ELSE [model |-> "COCO_18", diag |-> << ModelErrMsg >>]

\* gflagToScaleMode with the two normalized conventions exchanged
gflagToScaleMode_Swapped(scaleMode) ==
    IF scaleMode = 0 THEN [mode |-> "InputResolution", diag |-> <<>>]
    ELSE IF scaleMode = 1 THEN [mode |-> "NetOutputResolution", diag |-> <<>>]
    ELSE IF scaleMode = 2 THEN [mode |-> "OutputResolution", diag |-> <<>>]
    ELSE IF scaleMode = 3 THEN [mode |-> "PlusMinusOne", diag |-> <<>>]
    ELSE IF scaleMode = 4 THEN [mode |-> "ZeroToOne", diag |-> <<>>]
    ELSE [mode |-> "InputResolution", diag |-> << ScaleErrMsg >>]

\* Module::gflagToScaleMode
gflagToScaleMode(scaleMode) ==
    IF scaleMode = 0 THEN [mode |-> "InputResolution", diag |-> <<>>]
    ELSE IF scaleMode = 1 THEN [mode |-> "NetOutputResolution", diag |-> <<>>]
    ELSE IF scaleMode = 2 THEN [mode |-> "OutputResolution", diag |-> <<>>]
    ELSE IF scaleMode = 3 THEN [mode |-> "ZeroToOne", diag |-> <<>>]
    ELSE IF scaleMode = 4 THEN [mode |-> "PlusMinusOne", diag |-> <<>>]
    ELSE [mode |-> "InputResolution", diag |-> << ScaleErrMsg >>]

\* Module::gflagToHeatMaps
gflagToHeatMaps(heatmaps_add_parts, heatmaps_add_bkg, heatmaps_add_PAFs) ==
    (IF heatmaps_add_parts THEN << "Parts" >> ELSE <<>>)
    \o (IF heatmaps_add_bkg THEN << "Background" >> ELSE <<>>)
    \o (IF heatmaps_add_PAFs THEN << "PAFs" >> ELSE <<>>)

\* line 435
heatMapsScaleModeOf(heatmaps_scale_mode) ==
    IF heatmaps_scale_mode = 0 THEN "PlusMinusOne"
    ELSE IF heatmaps_scale_mode = 1 THEN "ZeroToOne"
    ELSE "UnsignedChar"

\* gflagsToOpParameters throwing on a model name it does not know
gflagsToOpParameters_ModelFatal ==
    LET img == sscanf_dxd(rf.img_resolution)
        net == sscanf_dxd(rf.net_resolution)
        pm == gflagToPoseModel(rf.model_name)
        sm == gflagToScaleMode(rf.scale_mode)
        heatOK == rf.heatmaps_scale_mode >= 0 /\ rf.heatmaps_scale_mode <= 2
    IN  [outputSize |-> << img.width, img.height >>,
         netInputSize |-> << net.width, net.height >>,
         poseModel |-> pm.model,
         scaleMode |-> sm.mode,
         heatMapTypes |-> gflagToHeatMaps(rf.heatmaps_add_parts,
                                          rf.heatmaps_add_bkg,
                                          rf.heatmaps_add_PAFs),
         heatMapsScaleMode |-> heatMapsScaleModeOf(rf.heatmaps_scale_mode),
         thrown |-> IF img.nRead # 2 THEN "img_resolution"
                    ELSE IF net.nRead # 2 THEN "net_resolution"
                    ELSE IF pm.diag # <<>> THEN "model_name"
                    ELSE IF ~heatOK THEN "heatmaps_scale_mode"
                    ELSE "none",
         diag |-> IF img.nRead # 2 THEN << ImgResErrMsg >>
                  ELSE IF net.nRead # 2 THEN << NetResErrMsg >>
                  ELSE IF pm.diag # <<>> THEN pm.diag
                  ELSE pm.diag \o sm.diag
                       \o (IF heatOK THEN <<>> ELSE << HeatErrMsg >>)]

\* Module::gflagsToOpParameters: the tuple it returns, the check that threw
\* ("none" if it returned) and the diagnostics emitted on the way.
gflagsToOpParameters ==
    LET img == sscanf_dxd(rf.img_resolution)
        net == sscanf_dxd(rf.net_resolution)
        pm == gflagToPoseModel(rf.model_name)
        sm == gflagToScaleMode(rf.scale_mode)
        heatOK == rf.heatmaps_scale_mode >= 0 /\ rf.heatmaps_scale_mode <= 2
    IN  [outputSize |-> << img.width, img.height >>,
         netInputSize |-> << net.width, net.height >>,
         poseModel |-> pm.model,
         scaleMode |-> sm.mode,
         heatMapTypes |-> gflagToHeatMaps(rf.heatmaps_add_parts,
                                          rf.heatmaps_add_bkg,
                                          rf.heatmaps_add_PAFs),
         heatMapsScaleMode |-> heatMapsScaleModeOf(rf.heatmaps_scale_mode),
         thrown |-> IF img.nRead # 2 THEN "img_resolution"
                    ELSE IF net.nRead # 2 THEN "net_resolution"
                    ELSE IF ~heatOK THEN "heatmaps_scale_mode"
                    ELSE "none",
         diag |-> IF img.nRead # 2 THEN << ImgResErrMsg >>
                  ELSE IF net.nRead # 2 THEN << NetResErrMsg >>
                  ELSE pm.diag \o sm.diag
                       \o (IF heatOK THEN <<>> ELSE << HeatErrMsg >>)]

\* lines 339-341: the op::WrapperStructPose built from the parameters
wrapperStructPoseOf(p) ==
    [netInputSize |-> p.netInputSize,
     outputSize |-> p.outputSize,
     scaleMode |-> p.scaleMode,
     num_gpu |-> rf.num_gpu,
     num_gpu_start |-> rf.num_gpu_start,
     num_scales |-> rf.num_scales,
     scale_gap |-> rf.scale_gap,
     renderOutput |-> ~no_render_output,
     poseModel |-> p.poseModel,
     blendOriginalFrame |-> ~FLAGS_disable_blending,
     alpha_pose |-> rf.alpha_pose,
     alpha_heatmap |-> rf.alpha_heatmap,
     part_to_show |-> rf.part_to_show,
     model_folder |-> rf.model_folder,
     heatMapTypes |-> p.heatMapTypes,
     heatMapsScaleMode |-> p.heatMapsScaleMode]

\* -------------------------------------------------------------------- Init
\* Module is constructed, configure has not run.  closing is not initialized
\* by the constructor, it has either value.
InitRun ==
    /\ phase = "Configuring"
    /\ wrapperStructPose = <<>>
    /\ closing \in BOOLEAN
    /\ mClosed = FALSE
    /\ inPort = <<>>
    /\ delivered = 0
    /\ pc = "idle"
    /\ datumToProcess = 0
    /\ successfullyEmplaced = FALSE
    /\ popped = FALSE
    /\ datumProcessed = NullBatch
    /\ opState = "idle"
    /\ opIn = <<>>
    /\ opOut = <<>>
    /\ stopCount = 0
    /\ ctl = "idle"
    /\ quits = 0
    /\ portOpens = [p \in Ports |-> 0]
    /\ portCloses = [p \in Ports |-> 0]
    /\ mapParts = BodyPartTable
    /\ targetWrites = 0
    /\ lastTarget = NoMsg
    /\ imageWrites = 0
    /\ lastImage = NoImg
    /\ log = <<>>
    /\ inReads = 0
    /\ lastAcquire = "none"
    /\ framesAcquired = 0
    /\ okBatches = 0
    /\ cyc = [log |-> 0, tgt |-> 0, img |-> 0, pending |-> FALSE,
              closingAtStart |-> FALSE,
              emplace |-> 0, pop |-> 0, consume |-> 0, work |-> 0]

\* The run with the default configuration, every port openable and a working
\* engine; rendering may be switched off.
Init ==
    /\ InitRun
    /\ rf = DefaultRF
    /\ FLAGS_disable_blending = FALSE
    /\ no_render_output \in BOOLEAN
    /\ unopenable = {}
    /\ engineOK = TRUE

\* --------------------------------------------------------------- configure
\* Module::configure: opens the rpc port, clears closing, derives the engine
\* parameters, configures and starts the wrapper, constructs the three workers
\* and opens their ports.  The results of the open() calls are not looked at.
\* A failed check of gflagsToOpParameters and a failing opWrapper throw: the
\* exception leaves configure and ends the process.
configure ==
    /\ phase = "Configuring"
    /\ closing' = FALSE
    /\ LET p == gflagsToOpParameters
       IN  IF p.thrown # "none"
           THEN /\ log' = log \o p.diag
                /\ portOpens' = [portOpens EXCEPT !["rpc"] = @ + 1]
                /\ phase' = "Aborted"
                /\ UNCHANGED << wrapperStructPose, opState >>
           ELSE IF ~engineOK
           THEN /\ log' = log \o p.diag \o << EngineErrMsg >>
                /\ portOpens' = [portOpens EXCEPT !["rpc"] = @ + 1]
                /\ wrapperStructPose' = << wrapperStructPoseOf(p) >>
                /\ phase' = "Aborted"
                /\ UNCHANGED opState
           ELSE /\ log' = log \o p.diag
                /\ portOpens' = [q \in Ports |-> portOpens[q] + 1]
                /\ wrapperStructPose' = << wrapperStructPoseOf(p) >>
                /\ opState' = "running"
                /\ phase' = "Running"
    /\ UNCHANGED << histVars, no_render_output, envVars, srcVars, inputVars,
                    pc, localVars, opIn, opOut, stopCount, ctl, quits,
                    portCloses, tgtVars, imgVars, cyc >>

\* ------------------------------------------------------------ image source
\* The sender on image:i writes a frame.  The port is a BufferedPort in its
\* default (non-strict) mode: an unread frame is replaced by a newer one.
Deliver(e) ==
    /\ phase = "Running"
    /\ "image:i" \notin unopenable
    /\ delivered < MaxFrames
    /\ delivered' = delivered + 1
    /\ inPort' = << [id |-> delivered + 1, empty |-> e] >>
    /\ UNCHANGED << histVars, cfgVars, inputVars, pc, localVars, engineVars, ctlVars,
                    portVars, tgtVars, imgVars, log, cyc >>

\* workProducer with the end-of-stream branch clearing the flag
workProducer_ResetLatch ==
    IF mClosed
    THEN /\ mClosed' = FALSE
         /\ datumToProcess' = 0
         /\ lastAcquire' = "latched"
         /\ UNCHANGED << inPort, inReads, framesAcquired, log >>
    ELSE /\ inPort # <<>>
         /\ inPort' = <<>>
         /\ inReads' = inReads + 1
         /\ IF inPort[1].empty
            THEN /\ mClosed' = TRUE
                 /\ log' = Append(log, EmptyFrameMsg)
                 /\ datumToProcess' = 0
                 /\ lastAcquire' = "empty"
                 /\ UNCHANGED framesAcquired
            ELSE /\ datumToProcess' = inPort[1].id
                 /\ lastAcquire' = "frame"
                 /\ framesAcquired' = framesAcquired + 1
                 /\ UNCHANGED << mClosed, log >>

\* workProducer logging the empty frame without setting the flag
workProducer_NoLatchOnEmpty ==
    IF mClosed
    THEN /\ mClosed' = TRUE
         /\ datumToProcess' = 0
         /\ lastAcquire' = "latched"
         /\ UNCHANGED << inPort, inReads, framesAcquired, log >>
    ELSE /\ inPort # <<>>
         /\ inPort' = <<>>
         /\ inReads' = inReads + 1
         /\ IF inPort[1].empty
            THEN /\ log' = Append(log, EmptyFrameMsg)
                 /\ datumToProcess' = 0
                 /\ lastAcquire' = "empty"
                 /\ UNCHANGED << mClosed, framesAcquired >>
            ELSE /\ datumToProcess' = inPort[1].id
                 /\ lastAcquire' = "frame"
                 /\ framesAcquired' = framesAcquired + 1
                 /\ UNCHANGED << mClosed, log >>

\* ------------------------------------------------ ImageInput::workProducer
\* Sets datumToProcess (0 = nullptr) and the next position of the caller.
workProducer ==
    IF mClosed
    THEN /\ mClosed' = TRUE
         /\ datumToProcess' = 0
         /\ lastAcquire' = "latched"
         /\ UNCHANGED << inPort, inReads, framesAcquired, log >>
    ELSE /\ inPort # <<>>                      \* inPort.read() blocks
         /\ inPort' = <<>>
         /\ inReads' = inReads + 1
         /\ IF inPort[1].empty
            THEN /\ mClosed' = TRUE
                 /\ log' = Append(log, EmptyFrameMsg)
                 /\ datumToProcess' = 0
                 /\ lastAcquire' = "empty"
                 /\ UNCHANGED framesAcquired
            ELSE /\ datumToProcess' = inPort[1].id
                 /\ lastAcquire' = "frame"
                 /\ framesAcquired' = framesAcquired + 1
                 /\ UNCHANGED << mClosed, log >>

\* updateModule, line 461-462: acquire and branch on nullptr
UM_Acquire ==
    /\ phase = "Running"
    /\ pc = "idle"
    /\ workProducer
    /\ cyc' = NewCycle
    /\ pc' = IF datumToProcess' = 0 THEN "ret" ELSE "emplace"
    /\ UNCHANGED << histVars, cfgVars, delivered, successfullyEmplaced, popped,
                    datumProcessed, engineVars, ctlVars, portVars, tgtVars,
                    imgVars >>

\* UM_Emplace going on to the publishers although the submission was rejected
UM_Emplace_IgnoreRejection ==
    /\ phase = "Running"
    /\ pc = "emplace"
    /\ datumProcessed' = NullBatch
    /\ popped' = FALSE
    /\ cyc' = [cyc EXCEPT !.emplace = @ + 1]
    /\ IF opState = "running"
       THEN /\ opIn' = Append(opIn, datumToProcess)
            /\ successfullyEmplaced' = TRUE
            /\ pc' = "pop"
            /\ UNCHANGED log
       ELSE /\ successfullyEmplaced' = FALSE
            /\ pc' = "consume"
            /\ UNCHANGED << opIn, log >>
    /\ UNCHANGED << histVars, cfgVars, srcVars, inputVars, datumToProcess,
                    opState, opOut, ctlVars, portVars, tgtVars, imgVars >>

\* updateModule, lines 464-466 and the short-circuit of line 467: submit the
\* frame; datumProcessed is a fresh (null) pointer.  A rejected submission
\* skips waitAndPop and takes the else branch of line 472-473.
UM_Emplace ==
    /\ phase = "Running"
    /\ pc = "emplace"
    /\ datumProcessed' = NullBatch
    /\ popped' = FALSE
    /\ cyc' = [cyc EXCEPT !.emplace = @ + 1]
    /\ IF opState = "running"
       THEN /\ opIn' = Append(opIn, datumToProcess)
            /\ successfullyEmplaced' = TRUE
            /\ pc' = "pop"
            /\ UNCHANGED log
       ELSE /\ successfullyEmplaced' = FALSE
            /\ log' = Append(log, NotEmplacedMsg)
            /\ pc' = "ret"
            /\ UNCHANGED opIn
    /\ UNCHANGED << histVars, cfgVars, srcVars, inputVars, datumToProcess, opState,
                    opOut, ctlVars, portVars, tgtVars, imgVars >>

\* UM_Pop setting closing when the pipeline reports closure
UM_Pop_ClosesOnFailure ==
    /\ phase = "Running"
    /\ pc = "pop"
    /\ cyc' = [cyc EXCEPT !.pop = @ + 1]
    /\ IF opState # "running"
       THEN /\ popped' = FALSE
            /\ log' = Append(log, NotEmplacedMsg)
            /\ pc' = "ret"
            /\ closing' = TRUE
            /\ UNCHANGED << datumProcessed, opOut, okBatches >>
       ELSE /\ opOut # <<>>
            /\ popped' = TRUE
            /\ datumProcessed' = Head(opOut)
            /\ opOut' = Tail(opOut)
            /\ okBatches' = okBatches + BatchCount(Head(opOut))
            /\ pc' = "consume"
            /\ UNCHANGED << log, closing >>
    /\ UNCHANGED << cfgVars, srcVars, inputVars, datumToProcess,
                    successfullyEmplaced, opState, opIn, stopCount, ctl,
                    quits, portVars, tgtVars, imgVars >>

\* UM_Pop with a non-blocking pop: no result yet counts as a failure
UM_Pop_Try ==
    /\ phase = "Running"
    /\ pc = "pop"
    /\ cyc' = [cyc EXCEPT !.pop = @ + 1]
    /\ IF opState # "running" \/ opOut = <<>>
       THEN /\ popped' = FALSE
            /\ log' = Append(log, NotEmplacedMsg)
            /\ pc' = "ret"
            /\ UNCHANGED << datumProcessed, opOut, okBatches >>
       ELSE /\ popped' = TRUE
            /\ datumProcessed' = Head(opOut)
            /\ opOut' = Tail(opOut)
            /\ okBatches' = okBatches + BatchCount(Head(opOut))
            /\ pc' = "consume"
            /\ UNCHANGED log
    /\ UNCHANGED << cfgVars, srcVars, inputVars, datumToProcess,
                    successfullyEmplaced, opState, opIn, ctlVars, portVars,
                    tgtVars, imgVars >>

\* updateModule, line 467: opWrapper.waitAndPop blocks until a result is
\* there or the pipeline is stopped (then it returns false).
UM_Pop ==
    /\ phase = "Running"
    /\ pc = "pop"
    /\ cyc' = [cyc EXCEPT !.pop = @ + 1]
    /\ IF opState # "running"
       THEN /\ popped' = FALSE
            /\ log' = Append(log, NotEmplacedMsg)
            /\ pc' = "ret"
            /\ UNCHANGED << datumProcessed, opOut, okBatches >>
       ELSE /\ opOut # <<>>
            /\ popped' = TRUE
            /\ datumProcessed' = Head(opOut)
            /\ opOut' = Tail(opOut)
            /\ okBatches' = okBatches + BatchCount(Head(opOut))
            /\ pc' = "consume"
            /\ UNCHANGED log
    /\ UNCHANGED << cfgVars, srcVars, inputVars, datumToProcess,
                    successfullyEmplaced, opState, opIn, ctlVars, portVars,
                    tgtVars, imgVars >>

\* ------------------------------------------------ ImageOutput::workConsumer
workConsumer ==
    IF ~datumProcessed.isNull /\ datumProcessed.datums # <<>>
    THEN /\ imageWrites' = imageWrites + 1
         /\ lastImage' = [frame |-> datumProcessed.frame,
                          empty |-> datumProcessed.datums[1].outEmpty]
         /\ UNCHANGED log
    ELSE /\ log' = Append(log, NullDatumsMsg)
         /\ UNCHANGED imgVars

\* updateModule, line 469
UM_Consume ==
    /\ phase = "Running"
    /\ pc = "consume"
    /\ workConsumer
    /\ cyc' = [cyc EXCEPT !.consume = @ + 1]
    /\ pc' = "work"
    /\ UNCHANGED << histVars, cfgVars, srcVars, inputVars, localVars, engineVars,
                    ctlVars, portVars, tgtVars >>

\* ---------------------------------------------------- ImageProcessing::work
\* finalIndex with the parenthesis closed too early
finalIndex_Misplaced(person, numberBodyParts, bodyPart) ==
    3 * (person * numberBodyParts) + bodyPart

\* line 197
finalIndex(person, numberBodyParts, bodyPart) ==
    3 * (person * numberBodyParts + bodyPart)

\* mapParts[bodyPart]: std::map::operator[] yields the stored name, or
\* inserts and yields an empty string when the key is missing.
partName(mp, bodyPart) ==
    IF bodyPart \in DOMAIN mp THEN mp[bodyPart] ELSE ""

\* lines 196-201: one record of one person
partList(mp, d, person, bodyPart) ==
    LET pose == Pose(d)
        fi == finalIndex(person, d.parts, bodyPart)
    IN  << partName(mp, bodyPart), pose[fi], pose[fi + 1], pose[fi + 2] >>

\* lines 193-202: the list of one person
peopleList(mp, d, person) ==
    [b \in 1..d.parts |-> partList(mp, d, person, b - 1)]

\* lines 191-203: the lists one datum adds to mainList
personLists(mp, d) ==
    [p \in 1..d.people |-> peopleList(mp, d, p - 1)]

\* lines 179-204: mainList after the loop over all datums
RECURSIVE mainListOf(_, _)
mainListOf(mp, datums) ==
    IF datums = <<>> THEN <<>>
    ELSE personLists(mp, Head(datums)) \o mainListOf(mp, Tail(datums))

\* mapParts after the loop: every index looked up is now a key
mapPartsAfter(mp, datums) ==
    LET touched == UNION { IF datums[i].people >= 1
                           THEN 0..(datums[i].parts - 1) ELSE {} :
                           i \in 1..Len(datums) }
    IN  [i \in (DOMAIN mp) \cup touched |-> partName(mp, i)]

\* lines 172-174 and 205: peopleBottle is cleared and mainList is added to
\* it, so peopleBottle holds one element whatever mainList holds.
peopleBottleOf(mainList) == << mainList >>

work ==
    IF ~datumProcessed.isNull /\ datumProcessed.datums # <<>>
    THEN LET peopleBottle ==
                 peopleBottleOf(mainListOf(mapParts, datumProcessed.datums))
         IN  /\ mapParts' = mapPartsAfter(mapParts, datumProcessed.datums)
             /\ IF Len(peopleBottle) # 0
                THEN /\ targetWrites' = targetWrites + 1
                     /\ lastTarget' = [frame |-> datumProcessed.frame,
                                       bottle |-> peopleBottle]
                ELSE UNCHANGED << targetWrites, lastTarget >>
    ELSE UNCHANGED tgtVars

\* updateModule, line 470
UM_Work ==
    /\ phase = "Running"
    /\ pc = "work"
    /\ work
    /\ cyc' = [cyc EXCEPT !.work = @ + 1]
    /\ pc' = "ret"
    /\ UNCHANGED << histVars, cfgVars, srcVars, inputVars, localVars, engineVars,
                    ctlVars, portVars, imgVars, log >>

\* UM_Return ending the loop once the source is finished
UM_Return_StopWhenFinished ==
    /\ phase = "Running"
    /\ pc = "ret"
    /\ pc' = IF ~closing /\ ~mClosed THEN "idle" ELSE "exit"
    /\ UNCHANGED << histVars, cfgVars, srcVars, inputVars, localVars,
                    engineVars, ctlVars, portVars, tgtVars, imgVars, log,
                    cyc >>

\* UM_Return always returning true
UM_Return_IgnoresClosing ==
    /\ phase = "Running"
    /\ pc = "ret"
    /\ pc' = "idle"
    /\ UNCHANGED << histVars, cfgVars, srcVars, inputVars, localVars,
                    engineVars, ctlVars, portVars, tgtVars, imgVars, log,
                    cyc >>

\* updateModule, line 475: return !closing.  RFModule::runModule leaves its
\* loop when updateModule returns false.
UM_Return ==
    /\ phase = "Running"
    /\ pc = "ret"
    /\ pc' = IF ~closing THEN "idle" ELSE "exit"
    /\ UNCHANGED << histVars, cfgVars, srcVars, inputVars, localVars, engineVars,
                    ctlVars, portVars, tgtVars, imgVars, log, cyc >>

\* Module::close, run by RFModule::runModule after the loop: deletes the
\* three workers, whose destructors close their ports.
close ==
    /\ phase = "Running"
    /\ pc = "exit"
    /\ portCloses' = [p \in Ports |->
                        IF p \in DataPorts THEN portCloses[p] + 1
                        ELSE portCloses[p]]
    /\ phase' = "Closed"
    /\ pc' = "done"
    /\ UNCHANGED << histVars, no_render_output, envVars, wrapperStructPose,
                    srcVars, inputVars, localVars,
                    engineVars, ctlVars, portOpens, tgtVars, imgVars, log,
                    cyc >>

\* ------------------------------------------------------------ Module::quit
\* line 449, on the control thread
quit_setClosing ==
    /\ phase = "Running"
    /\ ctl = "idle"
    /\ quits < MaxQuits
    /\ quits' = quits + 1
    /\ closing' = TRUE
    /\ ctl' = "stop"
    /\ UNCHANGED << histVars, cfgVars, srcVars, inputVars, pc, localVars, engineVars,
                    stopCount, portVars, tgtVars, imgVars, log, cyc >>

\* line 450: opWrapper.stop() closes the pipeline's queues
quit_stop ==
    /\ ctl = "stop"
    /\ stopCount' = stopCount + 1
    /\ opState' = "stopped"
    /\ opIn' = <<>>
    /\ opOut' = <<>>
    /\ ctl' = "idle"
    /\ UNCHANGED << histVars, cfgVars, srcVars, inputVars, pc, localVars, closing,
                    quits, portVars, tgtVars, imgVars, log, cyc >>

\* ------------------------------------------------------ the engine pipeline
\* The wrapper's worker threads turn the oldest submitted frame into a batch.
EngineProcess ==
    /\ opState = "running"
    /\ opIn # <<>>
    /\ \E b \in BatchesOf(Head(opIn)) : opOut' = Append(opOut, b)
    /\ opIn' = Tail(opIn)
    /\ UNCHANGED << histVars, cfgVars, srcVars, inputVars, pc, localVars, opState,
                    ctlVars, portVars, tgtVars, imgVars, log, cyc >>

\* The pipeline closes by itself (a worker thread failed): its queues stop.
EngineFail ==
    /\ opState = "running"
    /\ opState' = "stopped"
    /\ opIn' = <<>>
    /\ opOut' = <<>>
    /\ UNCHANGED << histVars, cfgVars, srcVars, inputVars, pc, localVars, ctlVars,
                    portVars, tgtVars, imgVars, log, cyc >>

\* ----------------------------------------------------------- specification
\* Lifecycle state of the orchestration loop
lifecycle ==
    IF phase = "Running" /\ closing THEN "Closing" ELSE phase

Next ==
    \/ configure
    \/ \E e \in BOOLEAN : Deliver(e)
    \/ UM_Acquire
    \/ UM_Emplace
    \/ UM_Pop
    \/ UM_Consume
    \/ UM_Work
    \/ UM_Return
    \/ close
    \/ quit_setClosing
    \/ quit_stop
    \/ EngineProcess
    \/ EngineFail

Spec == Init /\ [][Next]_vars

\* The same run with a loop thread that is scheduled fairly: every step of
\* updateModule and close that can be taken is taken, the control thread
\* finishes a quit it has begun, and the pipeline's workers process what is
\* submitted.  The source is not obliged to deliver a frame.
LoopFairness ==
    /\ WF_vars(UM_Acquire)
    /\ WF_vars(UM_Emplace)
    /\ WF_vars(UM_Pop)
    /\ WF_vars(UM_Consume)
    /\ WF_vars(UM_Work)
    /\ WF_vars(UM_Return)
    /\ WF_vars(close)
    /\ WF_vars(quit_stop)
    /\ WF_vars(EngineProcess)

LiveSpec == Spec /\ LoopFairness

\* ------------------------------------------------- startup specification
\* The module from construction to the start of its first cycle, over the
\* configurations below: configure is applied to every one of them.
ResAlphabet == {"1", "2", "x", "a", " ", "-"}

ResStrings == UNION { [1..n -> ResAlphabet] : n \in 0..MaxStrLen }

ModelNames == {"COCO", "MPI", "MPI_4_layers", "BODY_25", "coco"}

ScaleModes == -1..5

HeatScaleModes == -1..3

\* one resolution string varies, everything else is the default
ResInputs ==
    { [DefaultRF EXCEPT !.img_resolution = r] : r \in ResStrings }
    \cup
    { [DefaultRF EXCEPT !.net_resolution = r] : r \in ResStrings }

\* the model, the two scale modes and the blending key vary
ModeInputs ==
    { [DefaultRF EXCEPT !.model_name = m, !.scale_mode = k,
                        !.heatmaps_scale_mode = h, !.disable_blending = b] :
          m \in ModelNames, k \in ScaleModes, h \in HeatScaleModes,
          b \in BOOLEAN }

\* the heat map flags vary
HeatInputs ==
    { [DefaultRF EXCEPT !.heatmaps_add_parts = a, !.heatmaps_add_bkg = b,
                        !.heatmaps_add_PAFs = c] :
          a \in BOOLEAN, b \in BOOLEAN, c \in BOOLEAN }

InitCfg ==
    /\ InitRun
    /\ \/ /\ rf \in ResInputs \cup HeatInputs
          /\ FLAGS_disable_blending = FALSE
          /\ no_render_output = FALSE
          /\ unopenable = {}
          /\ engineOK = TRUE
       \/ /\ rf \in ModeInputs
          /\ FLAGS_disable_blending \in BOOLEAN
          /\ no_render_output \in BOOLEAN
          /\ unopenable = {}
          /\ engineOK = TRUE
       \/ /\ rf = DefaultRF
          /\ FLAGS_disable_blending = FALSE
          /\ no_render_output = FALSE
          /\ unopenable \in SUBSET Ports
          /\ engineOK \in BOOLEAN

NextCfg ==
    \/ configure
    \/ \E e \in BOOLEAN : Deliver(e)
    \/ UM_Acquire

SpecCfg == InitCfg /\ [][NextCfg]_vars

TypeOK ==
    /\ phase \in {"Configuring", "Running", "Closed", "Aborted"}
    /\ pc \in {"idle", "emplace", "pop", "consume", "work", "ret", "exit", "done"}
    /\ datumToProcess \in 0..MaxFrames
    /\ Len(inPort) <= 1
    /\ targetWrites \in 0..MaxFrames
    /\ imageWrites \in 0..MaxFrames
    /\ Len(log) <= MaxFrames + 3
    /\ stopCount <= MaxQuits

\* ================================================================== claims
Last(q) == q[Len(q)]

\* an empty frame has been received by workProducer at some point
EmptyFrameSeen == \E i \in 1..Len(log) : log[i] = EmptyFrameMsg

\* this step is a return of workProducer to updateModule
AcquireStep == pc = "idle" /\ pc' # "idle"

\* number of persons of a batch, and the persons in the order of the engine:
\* a sequence of <<datum, person index>>
RECURSIVE personsOfDatums(_)
personsOfDatums(datums) ==
    IF datums = <<>> THEN <<>>
    ELSE [n \in 1..Head(datums).people |-> << Head(datums), n - 1 >>]
         \o personsOfDatums(Tail(datums))

PersonsOf(b) == IF b.isNull THEN <<>> ELSE personsOfDatums(b.datums)

NPersons(b) == Len(PersonsOf(b))

\* ---------------------------------------------------------------------- C1
\* C1: end-of-stream is a latch.  The call of workProducer that reads an
\* empty frame returns nullptr, and from then on mClosed stays set, every
\* call of workProducer returns nullptr, and image:i is not read again,
\* whatever the source delivers.
C1_EndOfStreamLatch ==
    /\ [][AcquireStep /\ inReads' # inReads /\ inPort[1].empty
             => datumToProcess' = 0 /\ mClosed' /\ pc' = "ret"]_vars
    /\ [][EmptyFrameSeen
             => /\ mClosed /\ mClosed'
                /\ inReads' = inReads
                /\ (AcquireStep => datumToProcess' = 0 /\ pc' = "ret")]_vars

\* a non-empty frame was waiting on image:i and the acquire of a later cycle
\* still returned end-of-stream
C1_Witness ==
    /\ EmptyFrameSeen
    /\ lastAcquire = "latched"
    /\ cyc.pending
    /\ pc = "ret"
    /\ datumToProcess = 0

\* ---------------------------------------------------------------------- C2
\* C2: work called with a batch that holds zero persons writes nothing on
\* target:o.
C2_ZeroPersonsNoWrite ==
    [][pc = "work" /\ NPersons(datumProcessed) = 0
          => targetWrites' = targetWrites]_vars

\* ---------------------------------------------------------------------- C3
\* the record the engine's data asks for: body part i of person n of datum d
expectedRecord(d, n, i, name) ==
    << name, KeyPoint(n, i, 0), KeyPoint(n, i, 1), KeyPoint(n, i, 2) >>

\* C3 as claimed: for a batch of N >= 1 persons work writes one message whose
\* outer list holds N per-person lists in engine order, each of exactly 19
\* records (BodyPartTable[i], x, y, confidence), i = 0..18.
C3_NineteenRecords ==
    [][pc = "work" /\ pc' = "ret" /\ NPersons(datumProcessed) >= 1
          => LET P == PersonsOf(datumProcessed)
                 b == lastTarget'.bottle
             IN  /\ targetWrites' = targetWrites + 1
                 /\ Len(b) = 1
                 /\ Len(b[1]) = Len(P)
                 /\ \A n \in 1..Len(P) :
                       /\ Len(b[1][n]) = 19
                       /\ \A i \in 0..18 :
                             b[1][n][i + 1] =
                                expectedRecord(P[n][1], P[n][2], i,
                                               BodyPartTable[i])]_vars

\* name expected at index i: the table's name, the empty string past the table
expectedName(i) == IF i \in 0..18 THEN BodyPartTable[i] ELSE ""

\* C3 as amended: for a batch of N >= 1 persons work writes one message whose
\* outer list holds N per-person lists in engine order; each per-person list
\* holds as many records as the engine reported body parts for that person,
\* the record at position i being (name, x, y, confidence) of body part i,
\* i ascending from 0, with name = BodyPartTable[i] for i <= 18 and the empty
\* string beyond.
C3_RecordsPerReportedPart ==
    [][pc = "work" /\ pc' = "ret" /\ NPersons(datumProcessed) >= 1
          => LET P == PersonsOf(datumProcessed)
                 b == lastTarget'.bottle
             IN  /\ targetWrites' = targetWrites + 1
                 /\ lastTarget'.frame = datumProcessed.frame
                 /\ Len(b) = 1
                 /\ Len(b[1]) = Len(P)
                 /\ \A n \in 1..Len(P) :
                       /\ Len(b[1][n]) = P[n][1].parts
                       /\ \A i \in 0..(P[n][1].parts - 1) :
                             b[1][n][i + 1] =
                                expectedRecord(P[n][1], P[n][2], i,
                                               expectedName(i))]_vars

\* work has published a batch of two persons of 18 body parts each
C3_Witness ==
    /\ pc = "ret"
    /\ cyc.work = 1
    /\ NPersons(datumProcessed) = 2
    /\ datumProcessed.datums[1].parts = 18
    /\ targetWrites = cyc.tgt + 1
    /\ lastTarget.frame = datumProcessed.frame
    /\ Len(lastTarget.bottle[1]) = 2

\* ---------------------------------------------------------------------- C4
\* the batch is absent, or empty, or its rendered frame is empty
FrameAbsent(b) ==
    \/ b.isNull
    \/ b.datums = <<>>
    \/ b.datums[1].outEmpty

\* C4: workConsumer called with an absent or empty batch, or with a batch
\* whose rendered frame is empty, writes nothing on image:o, emits exactly one
\* diagnostic, and the cycle goes on.
C4_AbsentFrameNoWrite ==
    [][pc = "consume" /\ pc' # "consume" /\ FrameAbsent(datumProcessed)
          => /\ imageWrites' = imageWrites
             /\ Len(log') = Len(log) + 1
             /\ pc' = "work"]_vars

\* ---------------------------------------------------------------------- C5
\* the cycle in progress acquired a frame and its submission was rejected
SubmitFailedCycle == datumToProcess # 0 /\ ~successfullyEmplaced

\* C5: in a cycle that acquired a frame and whose waitAndEmplace fails,
\* exactly one diagnostic is logged, neither publisher is called, nothing is
\* written on target:o or image:o, the submission is tried once, and
\* updateModule returns true (the loop goes on) when closing is not set.
C5_SubmitFailure ==
    /\ [](pc = "ret" /\ SubmitFailedCycle
            => /\ Len(log) = cyc.log + 1
               /\ Last(log) = NotEmplacedMsg
               /\ cyc.emplace = 1
               /\ cyc.pop = 0
               /\ cyc.consume = 0
               /\ cyc.work = 0
               /\ targetWrites = cyc.tgt
               /\ imageWrites = cyc.img)
    /\ [][pc = "emplace" /\ pc' # "emplace" /\ ~successfullyEmplaced'
             => pc' = "ret"]_vars
    /\ [][pc = "ret" /\ pc' # "ret" /\ SubmitFailedCycle /\ ~closing
             => pc' = "idle" /\ phase' = "Running"]_vars

\* a cycle whose submission was rejected has returned true with closing unset
C5_Witness ==
    /\ phase = "Running"
    /\ pc = "idle"
    /\ ~closing
    /\ SubmitFailedCycle
    /\ cyc.emplace = 1
    /\ Len(log) = cyc.log + 1

\* ---------------------------------------------------------------------- C6
\* C6: on a quit received while Running the lifecycle goes Running, Closing,
\* Closed and nowhere else; once Closed (and the quit handler has returned)
\* opWrapper.stop() has been invoked exactly once and each of the four ports
\* has been closed exactly once; Closed is terminal.
C6_QuitShutsDownOnce ==
    /\ [][lifecycle' # lifecycle
             => << lifecycle, lifecycle' >> \in
                   { << "Configuring", "Running" >>,
                     << "Running", "Closing" >>,
                     << "Closing", "Closed" >> }]_vars
    /\ [](phase = "Closed" /\ ctl = "idle"
            => /\ stopCount = 1
               /\ \A p \in Ports : portCloses[p] = 1)

\* ---------------------------------------------------------------------- C7
\* the last finished cycle acquired a frame and found the pipeline closed
PipelineClosedCycle ==
    datumToProcess # 0 /\ (~successfullyEmplaced \/ ~popped)

\* C7 as claimed: once a cycle has found the pipeline closed (submit rejected
\* or retrieve reporting closure), the loop has left Running by the time the
\* cycle is over.
C7_ClosureLeavesRunning ==
    (phase = "Running" /\ pc = "idle" /\ PipelineClosedCycle)
        => lifecycle # "Running"

\* C7 as amended: a closure of the pipeline does not move the loop out of
\* Running.  The cycle that finds the pipeline closed logs one diagnostic and
\* leaves closing as it is, closing is set by a quit command only, and as
\* long as no quit has been received the lifecycle state stays Running.
C7_ClosureKeepsRunning ==
    /\ [][(pc = "emplace" \/ pc = "pop") /\ pc' = "ret"
             => /\ closing' = closing
                /\ log' = Append(log, NotEmplacedMsg)
                /\ lifecycle' = lifecycle]_vars
    /\ [][phase = "Running" /\ closing' # closing
             => quits' = quits + 1 /\ closing']_vars
    /\ [](phase # "Configuring" /\ quits = 0 => lifecycle = "Running")

\* the pipeline closed under a retrieve, no quit was received, and the loop
\* is back at the start of a cycle
C7_Witness ==
    /\ phase = "Running"
    /\ pc = "idle"
    /\ quits = 0
    /\ opState = "stopped"
    /\ datumToProcess # 0
    /\ successfullyEmplaced
    /\ ~popped
    /\ cyc.pop = 1

\* ---------------------------------------------------------------------- C8
\* the message holds exactly one per-person list of 19 records
OneListOf19(m) ==
    /\ Len(m.bottle) = 1
    /\ Len(m.bottle[1]) = 1
    /\ Len(m.bottle[1][1]) = 19

C9_ExhaustionKeepsRunning ==
    /\ [](pc = "ret" /\ datumToProcess = 0
            => /\ cyc.emplace = 0 /\ cyc.pop = 0
               /\ cyc.consume = 0 /\ cyc.work = 0
               /\ targetWrites = cyc.tgt /\ imageWrites = cyc.img)
    /\ [][AcquireStep /\ datumToProcess' = 0
             => pc' = "ret" /\ closing' = closing /\ phase' = phase]_vars
    /\ [][pc = "ret" /\ pc' # "ret" /\ datumToProcess = 0
             => /\ closing' = closing
                /\ (~closing => pc' = "idle" /\ phase' = "Running")]_vars
    /\ [](mClosed /\ quits = 0 => lifecycle = "Running")

\* an idle cycle on the exhausted source has returned and the loop goes on
C9_Witness ==
    /\ phase = "Running"
    /\ mClosed
    /\ lastAcquire = "latched"
    /\ pc = "idle"
    /\ datumToProcess = 0
    /\ quits = 0
    /\ ~closing

\* --------------------------------------------------------------------- C10
\* C10: a cycle whose submit and retrieve both succeed calls each publisher
\* exactly once, with the batch retrieved in that cycle, which is the result
\* of the frame acquired in that cycle; every write belongs to the frame of
\* the cycle in progress and to a later frame than the write before it; a
\* cycle whose submit or retrieve fails publishes nothing; and no frame or
\* batch is left in the pipeline when a cycle starts.
C10_OneInOneOut ==
    /\ [](pc \in {"consume", "work", "ret"} /\ datumToProcess # 0
              /\ successfullyEmplaced /\ popped
            => datumProcessed.frame = datumToProcess)
    /\ [](pc = "ret" /\ datumToProcess # 0
            => IF successfullyEmplaced /\ popped
               THEN cyc.consume = 1 /\ cyc.work = 1
               ELSE /\ cyc.consume = 0 /\ cyc.work = 0
                    /\ targetWrites = cyc.tgt /\ imageWrites = cyc.img)
    /\ [][targetWrites' # targetWrites
             => /\ targetWrites' = targetWrites + 1
                /\ pc = "work"
                /\ lastTarget'.frame = datumToProcess
                /\ lastTarget'.frame > lastTarget.frame]_vars
    /\ [][imageWrites' # imageWrites
             => /\ imageWrites' = imageWrites + 1
                /\ pc = "consume"
                /\ lastImage'.frame = datumToProcess
                /\ lastImage'.frame > lastImage.frame]_vars
    /\ [](pc = "idle" => opIn = <<>> /\ opOut = <<>>)

\* the second frame went through submit and retrieve and both publishers
\* have written its batch
C10_Witness ==
    /\ pc = "ret"
    /\ datumToProcess = 2
    /\ successfullyEmplaced /\ popped
    /\ targetWrites = 2 /\ lastTarget.frame = 2
    /\ imageWrites = 2 /\ lastImage.frame = 2

\* ============================================= claims on the configuration
\* configure has run (to its return or to an exception)
Configured == phase # "Configuring"

\* the struct handed to the wrapper, once there is one
HasConfig == wrapperStructPose # <<>>

WSP == wrapperStructPose[1]

\* how often the diagnostic m has been emitted
Count(m) == Cardinality({ i \in 1..Len(log) : log[i] = m })

\* the number a string of digits spells
RECURSIVE Spelled(_)
Spelled(digits) ==
    IF digits = <<>> THEN 0
    ELSE 10 * Spelled(SubSeq(digits, 1, Len(digits) - 1))
         + DigitVal(digits[Len(digits)])

\* a decimal integer: an optional minus sign, then one digit or more
IsInteger(str) ==
    /\ Len(str) >= 1
    /\ LET digits == IF str[1] = "-" THEN Tail(str) ELSE str
       IN  /\ Len(digits) >= 1
           /\ \A i \in 1..Len(digits) : IsDigit(digits[i])

SpelledInteger(str) ==
    IF str[1] = "-" THEN 0 - Spelled(Tail(str)) ELSE Spelled(str)

\* a string of the form WxH: an integer, one x, an integer
WellFormed(str) ==
    \E k \in 1..Len(str) :
        /\ str[k] = "x"
        /\ IsInteger(SubSeq(str, 1, k - 1))
        /\ IsInteger(SubSeq(str, k + 1, Len(str)))

\* position of the x of a well-formed string, the W and the H it spells
XPos(str) == CHOOSE k \in 1..Len(str) : str[k] = "x"

SpelledSize(str) ==
    << SpelledInteger(SubSeq(str, 1, XPos(str) - 1)),
       SpelledInteger(SubSeq(str, XPos(str) + 1, Len(str))) >>

\* everything but the named key lets configure through
ResolutionsParse ==
    /\ sscanf_dxd(rf.img_resolution).nRead = 2
    /\ sscanf_dxd(rf.net_resolution).nRead = 2

HeatModeInRange == rf.heatmaps_scale_mode \in 0..2

\* --------------------------------------------------------------------- C11
\* C11: the module enters Running only if every sub-initialization succeeded:
\* when the open of the rpc port or of one of the three data ports fails, or
\* the wrapper cannot be configured and started, configure fails and no
\* cycle is ever run.
C11_RunningNeedsAllInits ==
    (Configured /\ (unopenable # {} \/ ~engineOK))
        => /\ phase # "Running"
           /\ pc = "idle"
           /\ inReads = 0

\* --------------------------------------------------------------------- C12
\* C12: a net_resolution or img_resolution that is not of the form WxH, or a
\* heatmaps_scale_mode outside 0..2, aborts configuration: the wrapper is not
\* configured or started, no data port is opened, Running is not entered;
\* and a well-formed WxH yields the width W and the height H it spells.
C12_MalformedAborts ==
    Configured
        => /\ (\/ ~WellFormed(rf.img_resolution)
               \/ ~WellFormed(rf.net_resolution)
               \/ ~HeatModeInRange)
                 => /\ phase = "Aborted"
                    /\ ~HasConfig
                    /\ opState = "idle"
                    /\ \A q \in DataPorts : portOpens[q] = 0
           /\ (HasConfig /\ WellFormed(rf.img_resolution)
                         /\ WellFormed(rf.net_resolution))
                 => /\ WSP.outputSize = SpelledSize(rf.img_resolution)
                    /\ WSP.netInputSize = SpelledSize(rf.net_resolution)

\* --------------------------------------------------------------------- C13
KnownModel == rf.model_name \in {"COCO", "MPI", "MPI_4_layers"}

\* C13 as claimed: an unrecognized model_name aborts configuration and keeps
\* the module out of Running.
C13_UnknownModelFatal ==
    (Configured /\ ~KnownModel) => phase = "Aborted"

\* C13 as amended: an unrecognized model_name is not fatal.  It is reported
\* with one diagnostic, the COCO model is used, and configure goes on: the
\* module enters Running unless a resolution string does not parse, the
\* heatmaps_scale_mode is out of range, or the wrapper fails.
C13_UnknownModelNotFatal ==
    (Configured /\ ~KnownModel)
        => IF ResolutionsParse /\ HeatModeInRange /\ engineOK
           THEN /\ phase = "Running"
                /\ WSP.poseModel = "COCO_18"
                /\ Count(ModelErrMsg) = 1
           ELSE phase = "Aborted"

\* the module runs its first cycle with a model name it does not know
C13_Witness ==
    /\ rf.model_name = "BODY_25"
    /\ phase = "Running"
    /\ Count(ModelErrMsg) = 1
    /\ pc # "idle"

\* --------------------------------------------------------------------- C14
\* the internal model each name stands for
ExpectedModel(name) ==
    CASE name = "COCO" -> "COCO_18"
      [] name = "MPI" -> "MPI_15"
      [] name = "MPI_4_layers" -> "MPI_15_4"
      [] OTHER -> "COCO_18"

\* C14: COCO, MPI and MPI_4_layers select COCO_18, MPI_15 and MPI_15_4, three
\* different models; any other name selects COCO_18 with exactly one
\* diagnostic (none for the three names), and configuration goes on.
C14_ModelSelection ==
    /\ Cardinality({ ExpectedModel(n) : n \in {"COCO", "MPI", "MPI_4_layers"} })
         = 3
    /\ Configured
         => /\ HasConfig => WSP.poseModel = ExpectedModel(rf.model_name)
            /\ Count(ModelErrMsg) =
                  (IF ~KnownModel /\ ResolutionsParse THEN 1 ELSE 0)
            /\ (ResolutionsParse /\ HeatModeInRange /\ engineOK)
                  => phase = "Running"

\* the module runs with the model MPI_4_layers asked for
C14_Witness ==
    /\ rf.model_name = "MPI_4_layers"
    /\ phase = "Running"
    /\ WSP.poseModel = "MPI_15_4"
    /\ Count(ModelErrMsg) = 0

\* --------------------------------------------------------------------- C15
\* the convention each scale_mode stands for
ExpectedScaleMode(k) ==
    CASE k = 0 -> "InputResolution"
      [] k = 1 -> "NetOutputResolution"
      [] k = 2 -> "OutputResolution"
      [] k = 3 -> "ZeroToOne"
      [] k = 4 -> "PlusMinusOne"
      [] OTHER -> "InputResolution"

\* C15: scale_mode 0..4 select InputResolution, NetOutputResolution,
\* OutputResolution, ZeroToOne, PlusMinusOne, one each; any other integer
\* selects InputResolution with exactly one diagnostic (none for 0..4), and
\* configuration goes on.
C15_ScaleModeSelection ==
    /\ Cardinality({ ExpectedScaleMode(k) : k \in 0..4 }) = 5
    /\ Configured
         => /\ HasConfig => WSP.scaleMode = ExpectedScaleMode(rf.scale_mode)
            /\ Count(ScaleErrMsg) =
                  (IF rf.scale_mode \notin 0..4 /\ ResolutionsParse
                   THEN 1 ELSE 0)
            /\ (ResolutionsParse /\ HeatModeInRange /\ engineOK)
                  => phase = "Running"

\* the module runs with scale_mode 5: convention 0 and one diagnostic
C15_Witness ==
    /\ rf.scale_mode = 5
    /\ phase = "Running"
    /\ WSP.scaleMode = "InputResolution"
    /\ Count(ScaleErrMsg) = 1

\* --------------------------------------------------------------------- C16
\* C16: heatmaps_scale_mode 0 configures the engine with ZeroToOne, 1 with
\* PlusMinusOne and 2 with UnsignedChar, as the help text of the key says.
C16_HeatMapEncoding ==
    HasConfig
        => WSP.heatMapsScaleMode =
              (CASE rf.heatmaps_scale_mode = 0 -> "ZeroToOne"
                 [] rf.heatmaps_scale_mode = 1 -> "PlusMinusOne"
                 [] OTHER -> "UnsignedChar")

\* --------------------------------------------------------------------- C17
\* C17: every field of the struct handed to the wrapper comes from the
\* module's configuration keys, the blending field being the negation of the
\* key disable_blending, and the struct does not change once it is handed over.
C17_ConfigFromKeys ==
    /\ [](HasConfig
            => /\ WSP.blendOriginalFrame = ~rf.disable_blending
               /\ WSP.renderOutput = ~no_render_output
               /\ WSP.num_gpu = rf.num_gpu
               /\ WSP.num_gpu_start = rf.num_gpu_start
               /\ WSP.num_scales = rf.num_scales
               /\ WSP.scale_gap = rf.scale_gap
               /\ WSP.alpha_pose = rf.alpha_pose
               /\ WSP.alpha_heatmap = rf.alpha_heatmap
               /\ WSP.part_to_show = rf.part_to_show
               /\ WSP.model_folder = rf.model_folder)
    /\ [][HasConfig => wrapperStructPose' = wrapperStructPose]_vars

\* ================================================ claims on the shutdown
\* updateModule returns: the step out of position ret
ReturnStep == pc = "ret" /\ pc' # "ret"

\* the loop has been told to stop: no updateModule call is made any more
LoopLeft == pc = "exit" \/ pc = "done"

\* once set by quit the flag stays set
ClosingStays ==
    [][(phase # "Configuring" /\ closing) => closing']_vars

\* with the flag set, updateModule returns false, and no call follows
ReturnsFalse ==
    /\ [][(ReturnStep /\ closing) => pc' = "exit"]_vars
    /\ [][LoopLeft => (LoopLeft' /\ inReads' = inReads
                                 /\ targetWrites' = targetWrites
                                 /\ imageWrites' = imageWrites)]_vars

\* --------------------------------------------------------------------- C18
\* C18 as claimed: once quit has set closing it never becomes false again,
\* updateModule returns false at the end of the cycle in progress and on
\* every later call, and a cycle that begins after the flag was set acquires
\* no frame, submits nothing to the pipeline and writes to no outbound port.
C18_NoWorkAfterFlag ==
    /\ ClosingStays
    /\ ReturnsFalse
    /\ [][(AcquireStep /\ closing) => inReads' = inReads]_vars
    /\ [](cyc.closingAtStart => /\ cyc.emplace = 0
                                /\ targetWrites = cyc.tgt
                                /\ imageWrites = cyc.img)

\* C18 as amended: once quit has set closing it never becomes false again
\* and every return of updateModule from then on is false, which ends the
\* loop; the flag is read nowhere else, so a cycle that begins after the flag
\* was set (quit arriving between two cycles) is run like any other, and it
\* is the last one: no cycle begins after a cycle that began with the flag set.
C18_FlagReadAtReturn ==
    /\ ClosingStays
    /\ ReturnsFalse
    /\ [][AcquireStep => ~cyc.closingAtStart]_vars
    /\ [](cyc.closingAtStart => (closing /\ pc # "idle"))

\* a cycle that began with the flag set has acquired a frame, submitted it
\* and written the result to target:o and image:o, and has returned false
C18_Witness ==
    /\ cyc.closingAtStart
    /\ cyc.emplace = 1
    /\ targetWrites = cyc.tgt + 1
    /\ imageWrites = cyc.img + 1
    /\ pc = "exit"

\* --------------------------------------------------------------------- C19
\* C19: shutdown is live: once a quit has been received in Running, the
\* module eventually reaches Closed when the loop thread is scheduled fairly,
\* also when the quit arrives while the cycle is blocked in acquire with no
\* frame to deliver, or blocked in submit or retrieve.
C19_QuitLeadsToClosed ==
    (phase = "Running" /\ closing) ~> (phase = "Closed")

\* --------------------------------------------------------------------- C20
\* C20: the BodyPartTable is never mutated: in every reachable state mapParts
\* holds exactly the 19 entries 0=Nose .. 18=Background, whatever number of
\* body parts per person the engine returns to ImageProcessing::work.
C20_TableNeverMutated ==
    /\ DOMAIN mapParts = 0..18
    /\ mapParts = BodyPartTable
====
